---- MODULE Spec2Model ----
(***************************************************************************)
(* Employee scheduler (src/main.py): a Flask application over two SQLite   *)
(* tables, employees and time_logs.  Every handler opens one connection    *)
(* per statement (fetchone / execute), so a request is a sequence of       *)
(* atomic statements that interleave freely with those of other requests.  *)
(*                                                                         *)
(* Conventions                                                             *)
(*  - a form field is a sequence of one-character strings, a character     *)
(*    outside ASCII being written as its code point ("U+0663");            *)
(*  - a nullable column is <<>> (NULL) or <<v>>;                           *)
(*  - an instant is a whole number of seconds plus frac, which is 1 when   *)
(*    its sub-second part is not zero; only delta_hours reads the          *)
(*    sub-second part of `now`, so frac is drawn where it is read;         *)
(*  - hourly_rate and hours_worked are held in hundredths.                 *)
(***************************************************************************)
EXTENDS Integers, Sequences, FiniteSets, TLC

VARIABLES employees, time_logs, emp_seq, log_seq, clock, req

vars == <<employees, time_logs, emp_seq, log_seq, clock, req>>

(***************************************************************************)
(* Bounds of the model.                                                    *)
(***************************************************************************)
MaxEmpRows == 2
MaxLogRows == 2
MaxTicks == 2
TickSeconds == 18

Slots == {"r1", "r2"}

NULL == <<>>

(***************************************************************************)
(* Text helpers.                                                           *)
(***************************************************************************)
Digits == {"0", "1", "2", "3", "4", "5", "6", "7", "8", "9"}

Letters ==
    {"a", "b", "c", "d", "e", "f", "g", "h", "i", "j", "k", "l", "m",
     "n", "o", "p", "q", "r", "s", "t", "u", "v", "w", "x", "y", "z",
     "A", "B", "C", "D", "E", "F", "G", "H", "I", "J", "K", "L", "M",
     "N", "O", "P", "Q", "R", "S", "T", "U", "V", "W", "X", "Y", "Z"}

\* The characters str.isdigit(), int() and float() take for digits: the
\* decimal digits of every script, here ASCII and ARABIC-INDIC DIGIT THREE
UnicodeDigits == Digits \cup {"U+0663"}

DigitVal(c) ==
    CASE c = "0" -> 0 [] c = "1" -> 1 [] c = "2" -> 2 [] c = "3" -> 3
      [] c = "4" -> 4 [] c = "5" -> 5 [] c = "6" -> 6 [] c = "7" -> 7
      [] c = "8" -> 8 [] c = "9" -> 9 [] c = "U+0663" -> 3

\* str.isdigit(): non-empty and every character a digit
isdigit(s) == Len(s) > 0 /\ \A i \in 1..Len(s) : s[i] \in UnicodeDigits

\* int(s) of a digit string
RECURSIVE int(_)
int(s) ==
    IF Len(s) = 0 THEN 0
    ELSE 10 * int(SubSeq(s, 1, Len(s) - 1)) + DigitVal(s[Len(s)])

\* re.fullmatch(r"[A-Za-z ]+", name)
NameMatches(s) ==
    Len(s) > 0 /\ \A i \in 1..Len(s) : s[i] \in Letters \cup {" "}

\* str.split('.')
DotPositions(s) == {i \in 1..Len(s) : s[i] = "."}

RECURSIVE split(_)
split(s) ==
    IF DotPositions(s) = {} THEN <<s>>
    ELSE LET i == CHOOSE k \in DotPositions(s) :
                      \A j \in DotPositions(s) : k <= j
         IN  <<SubSeq(s, 1, i - 1)>> \o split(SubSeq(s, i + 1, Len(s)))

AllDigits(s) == \A i \in 1..Len(s) : s[i] \in UnicodeDigits

\* the words float() reads as a value that is not finite
NotANumber == {<<"n", "a", "n">>}
Infinite == {<<"i", "n", "f">>, <<"i", "n", "f", "i", "n", "i", "t", "y">>}

\* float(s) of a stripped form field: sign, then digits and one optional
\* point, or one of the words above (exponents and underscores are not
\* modelled).  ok is FALSE where float() raises; neg is rate < 0;
\* hundredths is the value times 100 when it is finite and has at most two
\* decimals.
float(s) ==
    LET signed == Len(s) > 0 /\ s[1] \in {"-", "+"}
        body   == IF signed THEN SubSeq(s, 2, Len(s)) ELSE s
        word   == body \in NotANumber \cup Infinite
        parts  == split(body)
        ip     == parts[1]
        fp     == IF Len(parts) = 2 THEN parts[2] ELSE <<>>
        ok     == \/ word
                  \/ /\ Len(parts) \in {1, 2}
                     /\ AllDigits(ip) /\ AllDigits(fp)
                     /\ Len(ip) + Len(fp) > 0
        pad    == IF Len(fp) = 0 THEN <<"0", "0">>
                  ELSE IF Len(fp) = 1 THEN fp \o <<"0">>
                  ELSE SubSeq(fp, 1, 2)
        mag    == IF ok /\ ~word THEN 100 * int(ip) + int(pad) ELSE 0
        nz     == IF word THEN body \in Infinite
                  ELSE ok /\ (int(ip) > 0 \/ int(fp) > 0)
    IN  [ok |-> ok,
         neg |-> ok /\ nz /\ signed /\ s[1] = "-",
         hundredths |-> mag]

(***************************************************************************)
(* validate_employee (src/main.py 20-49)                                   *)
(***************************************************************************)
ErrEmployeeId == "Employee ID must be an integer."
ErrName == "Name must contain only letters and spaces."
ErrPhone == "Phone must contain only digits."
ErrRateNegative == "Hourly rate must be non-negative."
ErrRatePrecision == "Hourly rate can have at most 2 decimal places."
ErrRateNumber == "Hourly rate must be a number."

validate_employee(employee_id, name, phone, hourly_rate) ==
    LET e1 == IF isdigit(employee_id) THEN <<>> ELSE <<ErrEmployeeId>>
        e2 == IF NameMatches(name) THEN <<>> ELSE <<ErrName>>
        e3 == IF isdigit(phone) THEN <<>> ELSE <<ErrPhone>>
        rate == float(hourly_rate)
        parts == split(hourly_rate)
        e4 == IF ~rate.ok THEN <<ErrRateNumber>>
              ELSE IF rate.neg THEN <<ErrRateNegative>>
              ELSE IF Len(parts) = 2 /\ Len(parts[2]) > 2
                   THEN <<ErrRatePrecision>>
              ELSE <<>>
    IN  e1 \o e2 \o e3 \o e4

\* errors = validate_employee(employee_id, name, phone, hourly_rate), the
\* call of src/main.py 150 and 187 taken alone with the arguments held by s
Validate(s) ==
    /\ req[s].pc = "validate"
    /\ req' = [req EXCEPT ![s].pc = "validated",
                          ![s].flash =
                              validate_employee(req[s].employee_id,
                                                req[s].name, req[s].phone,
                                                req[s].hourly_rate)]
    /\ UNCHANGED <<employees, time_logs, emp_seq, log_seq, clock>>

(***************************************************************************)
(* Flash messages, by the failure kind they report.                        *)
(***************************************************************************)
MsgDeleted == "Employee deleted successfully."
MsgNotFound == "Employee not found."
MsgBadRowId == "Missing or invalid employee id."
MsgUpdateMissing == "Missing fields for update."
MsgAnotherExists == "Another employee with that Employee ID already exists."
MsgUpdated == "Employee updated successfully."
MsgMustBeUnique == "Employee ID must be unique."
MsgAddMissing == "Missing fields for new employee."
MsgAlreadyExists == "Employee ID already exists."
MsgAdded == "Employee added successfully."
MsgClockMissing == "Missing employee ID or action."
MsgClockBadId == "Invalid employee ID."
MsgClockedIn == "Employee clocked in."
MsgClockInError == "Error clocking in."
MsgClockedOut == "Employee clocked out."
MsgNoClockIn == "No clock-in found to clock out."
MsgResetBadId == "Missing or invalid employee ID."
MsgReset == "Total hours reset."

DuplicateIdentifier == {MsgAlreadyExists, MsgMustBeUnique, MsgAnotherExists}
EmployeeNotFound == {MsgNotFound}
NoOpenEntry == {MsgNoClockIn}

(***************************************************************************)
(* Request inputs.                                                         *)
(***************************************************************************)
EmployeeForms ==
    {[employee_id |-> <<"1">>, name |-> <<"A", "n", "a">>,
      phone |-> <<"5", "5">>, hourly_rate |-> <<"1", "5", ".", "5">>],
     [employee_id |-> <<"1">>, name |-> <<"B", "o">>,
      phone |-> <<"0", "7">>, hourly_rate |-> <<"9">>],
     [employee_id |-> <<"2">>, name |-> <<"B", "o">>,
      phone |-> <<"0", "7">>, hourly_rate |-> <<"9">>],
     [employee_id |-> <<"2">>, name |-> <<"B", "0">>,
      phone |-> <<"0", "7">>, hourly_rate |-> <<"9", ".", "1", "2", "5">>],
     [employee_id |-> <<"1">>, name |-> <<>>,
      phone |-> <<"0", "7">>, hourly_rate |-> <<"9">>]}

\* errors = validate_employee(employee_id, name, phone, hourly_rate),
\* evaluated once for each form
errors ==
    [form \in EmployeeForms |->
        validate_employee(form.employee_id, form.name, form.phone,
                          form.hourly_rate)]

\* employee_id_int = int(employee_id) of the forms that pass validation
employee_id_int ==
    [form \in {f \in EmployeeForms : errors[f] = <<>>} |->
        int(form.employee_id)]

\* hourly_rate_val = round(float(hourly_rate), 2), in hundredths
hourly_rate_val ==
    [form \in {f \in EmployeeForms : errors[f] = <<>>} |->
        float(form.hourly_rate).hundredths]

\* the forms that pass validate_employee
ValidForms == {form \in EmployeeForms : errors[form] = <<>>}

\* the 'id' field of the delete and update forms: well-formed, and all
RowIds == {<<"1">>, <<"2">>}
RowIdInputs == RowIds \cup {<<"x">>}

\* the 'employee_id' field of the clock and reset forms
EmployeeIds == {<<"1">>, <<"2">>}
EmployeeIdInputs == EmployeeIds \cup {<<>>, <<"x">>}

\* the 'action' field of the clock form
ClockActions == {"clock_in", "clock_out"}
ClockActionInputs == ClockActions \cup {""}

\* seconds since the standing clock_in of SpecHours: both sides of the
\* rounding boundaries at 18 and 54 seconds, and whole hundredths
ElapsedInputs == {0, 17, 18, 19, 35, 36, 53, 54, 55, 70}

(***************************************************************************)
(* The state of a request: its position and its local variables, and in    *)
(* notifications the messages it has handed to an outbound notifier: no    *)
(* handler of src/main.py makes such a call, so none is ever added.        *)
(***************************************************************************)
Locals(pc, flash, category) ==
    [pc |-> pc, flash |-> flash, category |-> category,
     emp_row_id |-> <<>>, employee_id_int |-> 0, name |-> <<>>,
     phone |-> <<>>, hourly_rate_val |-> 0, now |-> 0,
     employee_id |-> <<>>, hourly_rate |-> <<>>,
     action |-> "", log_id |-> 0, log_clock_in |-> 0,
     employees |-> <<>>, employees_with_hours |-> <<>>,
     notifications |-> <<>>]

Idle == Locals("idle", <<>>, "")

\* flash(message, category) followed by return redirect(url_for('index'));
\* messages is the list of texts flashed (validation errors are joined)
Flashed(messages, category) == Locals("done", messages, category)

Success(message) == Flashed(<<message>>, "success")
Danger(message) == Flashed(<<message>>, "danger")

Init ==
    /\ employees = {}
    /\ time_logs = {}
    /\ emp_seq = 0
    /\ log_seq = 0
    /\ clock = 0
    /\ req = [s \in Slots |-> Idle]

(***************************************************************************)
(* The store: the two tables of init_db and their constraints.             *)
(***************************************************************************)
\* SELECT 1 FROM employees WHERE employee_id = ?
EmployeeExists(employee_id) ==
    \E e \in employees : e.employee_id = employee_id

\* rows of employees with the given primary key (none or one)
RowsById(id) == {e \in employees : e.id = id}

\* Mutant: the employee_id column declared without UNIQUE
UniqueOk_NoConstraint(emps) == TRUE

\* employee_id INTEGER UNIQUE NOT NULL
UniqueOk(emps) ==
    \A e1, e2 \in emps : e1.employee_id = e2.employee_id => e1.id = e2.id

\* FOREIGN KEY(employee_id) REFERENCES employees(employee_id)
ForeignKeyOk(emps, logs) ==
    \A l \in logs : \E e \in emps : e.employee_id = l.employee_id

\* Mutant: the foreign key declared without ON DELETE CASCADE enforcement
Cascade_Off(gone, logs) == logs

\* ON DELETE CASCADE: the entries left when the rows `gone` are deleted
Cascade(gone, logs) ==
    {l \in logs : \A e \in gone : l.employee_id # e.employee_id}

(***************************************************************************)
(* Elapsed hours of clock_out (src/main.py 297-302), in hundredths.        *)
(***************************************************************************)
SecondsPerHundredth == 36

\* The quotients q for which round((36 * q + 18) / 3600.0, 2) gives
\* (q + 1) / 100: the double nearest to the tie decides, q up to 55.
TieRoundsUp ==
    {0, 2, 3, 5, 6, 8, 9, 11, 13, 16, 19, 22, 25, 26, 27, 31, 32, 33,
     37, 38, 39, 40, 44, 45, 46, 50, 51, 52, 53, 54, 55}

\* Mutant: the hours truncated to 2 places instead of rounded
round2_Truncating(d, frac) == d \div SecondsPerHundredth

\* round(x, 2) of x = (d seconds + a sub-second part) / 3600.0, d >= 0
round2(d, frac) ==
    LET q == d \div SecondsPerHundredth
        r == d % SecondsPerHundredth
    IN  IF 2 * r < SecondsPerHundredth THEN q
        ELSE IF 2 * r > SecondsPerHundredth THEN q + 1
        ELSE IF frac = 1 \/ q \in TieRoundsUp THEN q + 1
        ELSE q

\* (now - clock_in_time).total_seconds() / 3600.0, rounded to 2 places;
\* clock_in_time is the stored text, which has whole seconds only
delta_hours(now, frac, clock_in_time) ==
    LET d == now - clock_in_time
    IN  IF d >= 0 THEN round2(d, frac)
        ELSE IF frac = 0 THEN 0 - round2(0 - d, 0)
        ELSE 0 - round2((0 - d) - 1, 1)

\* datetime.isoformat(timespec='seconds'): the sub-second part is dropped
isoformat(now) == now

(***************************************************************************)
(* index(), action == 'delete' (src/main.py 121-136)                       *)
(***************************************************************************)
DeleteFetch(s, id) ==
    /\ req[s].pc = "idle"
    /\ req' = [req EXCEPT ![s] =
          IF ~isdigit(id) THEN Danger(MsgBadRowId)
          ELSE IF RowsById(int(id)) = {} THEN Danger(MsgNotFound)
          ELSE LET emp == CHOOSE e \in RowsById(int(id)) : TRUE
               IN  [Idle EXCEPT !.pc = "delete_logs", !.emp_row_id = id,
                                !.employee_id_int = emp.employee_id]]
    /\ UNCHANGED <<employees, time_logs, emp_seq, log_seq, clock>>

DeleteLogs(s) ==
    /\ req[s].pc = "delete_logs"
    /\ time_logs' =
          {l \in time_logs : l.employee_id # req[s].employee_id_int}
    /\ req' = [req EXCEPT ![s].pc = "delete_employee"]
    /\ UNCHANGED <<employees, emp_seq, log_seq, clock>>

DeleteEmployee(s) ==
    /\ req[s].pc = "delete_employee"
    /\ LET gone == RowsById(int(req[s].emp_row_id))
       IN  /\ employees' = employees \ gone
           /\ time_logs' = Cascade(gone, time_logs)
    /\ req' = [req EXCEPT ![s] = Success(MsgDeleted)]
    /\ UNCHANGED <<emp_seq, log_seq, clock>>

(***************************************************************************)
(* index(), action == 'update' (src/main.py 139-174)                       *)
(***************************************************************************)
UpdateCheck(s, id, form) ==
    /\ req[s].pc = "idle"
    /\ LET missing == \/ ~isdigit(id)
                      \/ <<>> \in {form.employee_id, form.name,
                                   form.phone, form.hourly_rate}
           existing == {e \in employees :
                           /\ e.employee_id = employee_id_int[form]
                           /\ e.id # int(id)}
       IN  req' = [req EXCEPT ![s] =
              IF missing THEN Danger(MsgUpdateMissing)
              ELSE IF errors[form] # <<>>
                   THEN Flashed(errors[form], "danger")
              ELSE IF existing # {} THEN Danger(MsgAnotherExists)
              ELSE [Idle EXCEPT
                      !.pc = "update_execute", !.emp_row_id = id,
                      !.employee_id_int = employee_id_int[form],
                      !.name = form.name, !.phone = form.phone,
                      !.hourly_rate_val = hourly_rate_val[form]]]
    /\ UNCHANGED <<employees, time_logs, emp_seq, log_seq, clock>>

UpdateExecute(s) ==
    /\ req[s].pc = "update_execute"
    /\ LET target == RowsById(int(req[s].emp_row_id))
           updated == {[id |-> e.id,
                        employee_id |-> req[s].employee_id_int,
                        name |-> req[s].name, phone |-> req[s].phone,
                        hourly_rate |-> req[s].hourly_rate_val] :
                       e \in target}
           emps == (employees \ target) \cup updated
       IN  IF UniqueOk(emps) /\ ForeignKeyOk(emps, time_logs)
           THEN /\ employees' = emps
                /\ req' = [req EXCEPT ![s] = Success(MsgUpdated)]
           ELSE /\ employees' = employees
                /\ req' = [req EXCEPT ![s] = Danger(MsgMustBeUnique)]
    /\ UNCHANGED <<time_logs, emp_seq, log_seq, clock>>

(***************************************************************************)
(* index(), add employee (src/main.py 176-210)                             *)
(***************************************************************************)
AddCheck(s, form) ==
    /\ req[s].pc = "idle"
    /\ LET missing == <<>> \in {form.employee_id, form.name,
                                form.phone, form.hourly_rate}
       IN  req' = [req EXCEPT ![s] =
              IF missing THEN Danger(MsgAddMissing)
              ELSE IF errors[form] # <<>>
                   THEN Flashed(errors[form], "danger")
              ELSE IF EmployeeExists(employee_id_int[form])
                   THEN Danger(MsgAlreadyExists)
              ELSE [Idle EXCEPT
                      !.pc = "add_execute",
                      !.employee_id_int = employee_id_int[form],
                      !.name = form.name, !.phone = form.phone,
                      !.hourly_rate_val = hourly_rate_val[form]]]
    /\ UNCHANGED <<employees, time_logs, emp_seq, log_seq, clock>>

\* Mutant: INSERT OR REPLACE, the new row displaces the holder of the
\* identifier
AddExecute_Replacing(s) ==
    /\ req[s].pc = "add_execute"
    /\ emp_seq < MaxEmpRows
    /\ LET row == [id |-> emp_seq + 1,
                   employee_id |-> req[s].employee_id_int,
                   name |-> req[s].name, phone |-> req[s].phone,
                   hourly_rate |-> req[s].hourly_rate_val]
       IN  employees' =
              {e \in employees : e.employee_id # row.employee_id} \cup {row}
    /\ emp_seq' = emp_seq + 1
    /\ req' = [req EXCEPT ![s] = Success(MsgAdded)]
    /\ UNCHANGED <<time_logs, log_seq, clock>>

AddExecute(s) ==
    /\ req[s].pc = "add_execute"
    /\ LET row == [id |-> emp_seq + 1,
                   employee_id |-> req[s].employee_id_int,
                   name |-> req[s].name, phone |-> req[s].phone,
                   hourly_rate |-> req[s].hourly_rate_val]
       IN  IF UniqueOk(employees \cup {row})
           THEN /\ emp_seq < MaxEmpRows
                /\ employees' = employees \cup {row}
                /\ emp_seq' = emp_seq + 1
                /\ req' = [req EXCEPT ![s] = Success(MsgAdded)]
           ELSE /\ UNCHANGED <<employees, emp_seq>>
                /\ req' = [req EXCEPT ![s] = Danger(MsgMustBeUnique)]
    /\ UNCHANGED <<time_logs, log_seq, clock>>

(***************************************************************************)
(* clock() (src/main.py 258-314)                                           *)
(***************************************************************************)
\* the checks of the form and now = datetime.now(tz=EASTERN)
ClockBegin(s, employee_id, action) ==
    /\ req[s].pc = "idle"
    /\ req' = [req EXCEPT ![s] =
          IF employee_id = <<>> \/ action = "" THEN Danger(MsgClockMissing)
          ELSE IF ~isdigit(employee_id) THEN Danger(MsgClockBadId)
          ELSE [Idle EXCEPT !.pc = "clock_exists", !.action = action,
                            !.employee_id_int = int(employee_id),
                            !.now = clock]]
    /\ UNCHANGED <<employees, time_logs, emp_seq, log_seq, clock>>

\* ensure employee exists
ClockExists(s) ==
    /\ req[s].pc = "clock_exists"
    /\ req' = [req EXCEPT ![s] =
          IF ~EmployeeExists(req[s].employee_id_int) THEN Danger(MsgNotFound)
          ELSE IF req[s].action = "clock_in" THEN [@ EXCEPT !.pc = "clock_in"]
          ELSE [@ EXCEPT !.pc = "clock_out_fetch"]]
    /\ UNCHANGED <<employees, time_logs, emp_seq, log_seq, clock>>

ClockIn(s) ==
    /\ req[s].pc = "clock_in"
    /\ LET row == [id |-> log_seq + 1,
                   employee_id |-> req[s].employee_id_int,
                   clock_in |-> isoformat(req[s].now),
                   clock_out |-> NULL, hours_worked |-> NULL]
       IN  IF ForeignKeyOk(employees, time_logs \cup {row})
           THEN /\ log_seq < MaxLogRows
                /\ time_logs' = time_logs \cup {row}
                /\ log_seq' = log_seq + 1
                /\ req' = [req EXCEPT ![s] = Success(MsgClockedIn)]
           ELSE /\ UNCHANGED <<time_logs, log_seq>>
                /\ req' = [req EXCEPT ![s] = Danger(MsgClockInError)]
    /\ UNCHANGED <<employees, emp_seq, clock>>

\* Mutant: the query without "AND clock_out IS NULL"
OpenLogs_AnyLog(employee_id) ==
    {l \in time_logs : l.employee_id = employee_id}

\* SELECT * FROM time_logs WHERE employee_id=? AND clock_out IS NULL
\* ORDER BY id DESC LIMIT 1
OpenLogs(employee_id) ==
    {l \in time_logs : l.employee_id = employee_id /\ l.clock_out = NULL}

ClockOutFetch(s) ==
    /\ req[s].pc = "clock_out_fetch"
    /\ LET found == OpenLogs(req[s].employee_id_int)
       IN  req' = [req EXCEPT ![s] =
              IF found = {} THEN Danger(MsgNoClockIn)
              ELSE LET log == CHOOSE l \in found :
                                  \A m \in found : m.id <= l.id
                   IN  [@ EXCEPT !.pc = "clock_out_execute",
                                 !.log_id = log.id,
                                 !.log_clock_in = log.clock_in]]
    /\ UNCHANGED <<employees, time_logs, emp_seq, log_seq, clock>>

\* SET clock_out=?, hours_worked=?
ClosedLog(l, clock_out, hours_worked) ==
    [l EXCEPT !.clock_out = <<clock_out>>, !.hours_worked = <<hours_worked>>]

\* UPDATE time_logs SET clock_out=?, hours_worked=? WHERE id=?
ClockOutExecute(s, frac) ==
    /\ req[s].pc = "clock_out_execute"
    /\ time_logs' =
          {IF l.id = req[s].log_id
           THEN ClosedLog(l, isoformat(req[s].now),
                          delta_hours(req[s].now, frac, req[s].log_clock_in))
           ELSE l : l \in time_logs}
    /\ req' = [req EXCEPT ![s] = Success(MsgClockedOut)]
    /\ UNCHANGED <<employees, emp_seq, log_seq, clock>>

(***************************************************************************)
(* reset_hours() (src/main.py 319-337)                                     *)
(***************************************************************************)
ResetCheck(s, emp_id) ==
    /\ req[s].pc = "idle"
    /\ req' = [req EXCEPT ![s] =
          IF ~isdigit(emp_id) THEN Danger(MsgResetBadId)
          ELSE IF ~EmployeeExists(int(emp_id)) THEN Danger(MsgNotFound)
          ELSE [Idle EXCEPT !.pc = "reset_execute",
                            !.employee_id_int = int(emp_id)]]
    /\ UNCHANGED <<employees, time_logs, emp_seq, log_seq, clock>>

\* Mutant: the accumulated value cleared to NULL instead of 0
ResetLog_ToNull(l) == [l EXCEPT !.hours_worked = NULL]

\* SET hours_worked=0
ResetLog(l) == [l EXCEPT !.hours_worked = <<0>>]

\* Mutant: the history of the employee deleted instead of zeroed
ResetExecute_Deleting(s) ==
    /\ req[s].pc = "reset_execute"
    /\ time_logs' =
          {l \in time_logs : l.employee_id # req[s].employee_id_int}
    /\ req' = [req EXCEPT ![s] = Success(MsgReset)]
    /\ UNCHANGED <<employees, emp_seq, log_seq, clock>>

\* UPDATE time_logs SET hours_worked=0 WHERE employee_id=?
ResetExecute(s) ==
    /\ req[s].pc = "reset_execute"
    /\ time_logs' =
          {IF l.employee_id = req[s].employee_id_int THEN ResetLog(l)
           ELSE l : l \in time_logs}
    /\ req' = [req EXCEPT ![s] = Success(MsgReset)]
    /\ UNCHANGED <<employees, emp_seq, log_seq, clock>>

(***************************************************************************)
(* total_hours of the listing (src/main.py 231-237), in hundredths.        *)
(***************************************************************************)
\* SUM(hours_worked): NULL values are skipped
RECURSIVE SumHours(_)
SumHours(logs) ==
    IF logs = {} THEN 0
    ELSE LET l == CHOOSE x \in logs : TRUE
         IN  (IF l.hours_worked = NULL THEN 0 ELSE l.hours_worked[1])
             + SumHours(logs \ {l})

\* SELECT SUM(hours_worked) FROM time_logs WHERE employee_id = ?, or 0
total_hours(logs, employee_id) ==
    SumHours({l \in logs : l.employee_id = employee_id})

(***************************************************************************)
(* index(), GET (src/main.py 212-253): the listing.  The request asks for  *)
(* the first page, which holds every row of the model (PER_PAGE_DEFAULT is *)
(* 10); the arithmetic of the pages reads no entry.                        *)
(***************************************************************************)
\* ORDER BY id DESC
RECURSIVE OrderByIdDesc(_)
OrderByIdDesc(emps) ==
    IF emps = {} THEN <<>>
    ELSE LET first == CHOOSE e \in emps : \A o \in emps : o.id <= e.id
         IN  <<first>> \o OrderByIdDesc(emps \ {first})

\* employees = fetchall('SELECT * FROM employees ORDER BY id DESC ...')
ListFetch(s) ==
    /\ req[s].pc = "idle"
    /\ req' = [req EXCEPT ![s] =
          IF employees = {} THEN Locals("done", <<>>, "")
          ELSE [Idle EXCEPT !.pc = "list_totals",
                            !.employees = OrderByIdDesc(employees)]]
    /\ UNCHANGED <<employees, time_logs, emp_seq, log_seq, clock>>

\* Mutant: the SUM taken without "WHERE employee_id = ?"
emp_dict_AllEntries(emp) ==
    [employee_id |-> emp.employee_id, name |-> emp.name,
     phone |-> emp.phone, hourly_rate |-> emp.hourly_rate,
     total_hours |-> SumHours(time_logs)]

\* emp_dict of one pass of the loop: the row and its total_hours, which
\* round(float(total_hours), 2) leaves a whole number of hundredths
emp_dict(emp) ==
    [employee_id |-> emp.employee_id, name |-> emp.name,
     phone |-> emp.phone, hourly_rate |-> emp.hourly_rate,
     total_hours |-> total_hours(time_logs, emp.employee_id)]

\* one pass of "for emp in employees": its SUM is a statement of its own
ListTotal(s) ==
    /\ req[s].pc = "list_totals"
    /\ LET emp == Head(req[s].employees)
           rest == Tail(req[s].employees)
       IN  req' = [req EXCEPT ![s] =
              [@ EXCEPT !.pc = IF rest = <<>> THEN "done" ELSE @,
                        !.employees = rest,
                        !.employees_with_hours = Append(@, emp_dict(emp))]]
    /\ UNCHANGED <<employees, time_logs, emp_seq, log_seq, clock>>

(***************************************************************************)
(* The response is sent and the worker takes the next request.             *)
(***************************************************************************)
Redirect(s) ==
    /\ req[s].pc = "done"
    /\ req' = [req EXCEPT ![s] = Idle]
    /\ UNCHANGED <<employees, time_logs, emp_seq, log_seq, clock>>

(***************************************************************************)
(* The wall clock of datetime.now: it never goes backwards.                *)
(***************************************************************************)
Tick ==
    /\ clock + TickSeconds <= MaxTicks * TickSeconds
    /\ clock' = clock + TickSeconds
    /\ UNCHANGED <<employees, time_logs, emp_seq, log_seq, req>>

\* The steps of the handlers of employee records, for requests whose
\* fields are drawn from ids and forms
StoreStep(s, ids, forms) ==
    \/ \E id \in ids : DeleteFetch(s, id)
    \/ DeleteLogs(s)
    \/ DeleteEmployee(s)
    \/ \E id \in ids, form \in forms : UpdateCheck(s, id, form)
    \/ UpdateExecute(s)
    \/ \E form \in forms : AddCheck(s, form)
    \/ AddExecute(s)

\* The steps of the clock handler
ClockStep(s, ids, actions) ==
    \/ \E employee_id \in ids, action \in actions :
          ClockBegin(s, employee_id, action)
    \/ ClockExists(s)
    \/ ClockIn(s)
    \/ ClockOutFetch(s)
    \/ \E frac \in {0, 1} : ClockOutExecute(s, frac)

\* The steps of the reset handler
ResetStep(s, ids) ==
    \/ \E emp_id \in ids : ResetCheck(s, emp_id)
    \/ ResetExecute(s)

(***************************************************************************)
(* Spec: concurrent requests to the handlers of employee records and of    *)
(* the clock, all within one second of the wall clock, from an empty       *)
(* database.  The requests are well-formed: one that fails the checks of   *)
(* its form ends in its first step and touches no row (see SpecForms).     *)
(***************************************************************************)
Next ==
    \E s \in Slots :
        \/ StoreStep(s, RowIds, ValidForms)
        \/ ClockStep(s, EmployeeIds, ClockActions)
        \/ Redirect(s)

Spec == Init /\ [][Next]_vars

(***************************************************************************)
(* SpecTime: concurrent well-formed requests to the clock handler over a   *)
(* running wall clock, from a database that holds one employee.            *)
(***************************************************************************)
InitTime ==
    /\ employees = {[id |-> 1, employee_id |-> 1, name |-> <<"A", "n", "a">>,
                     phone |-> <<"5", "5">>, hourly_rate |-> 1550]}
    /\ time_logs = {}
    /\ emp_seq = 1
    /\ log_seq = 0
    /\ clock = 0
    /\ req = [s \in Slots |-> Idle]

NextTime ==
    \/ \E s \in Slots :
          ClockStep(s, EmployeeIds, ClockActions) \/ Redirect(s)
    \/ Tick

SpecTime == InitTime /\ [][NextTime]_vars

(***************************************************************************)
(* SpecHours: concurrent requests, well-formed or not, to the clock and    *)
(* reset handlers at a standing wall clock, from a database of two         *)
(* employees in which employee 1 clocked in at second 0 and one of the     *)
(* ElapsedInputs seconds have passed since.                                *)
(***************************************************************************)
InitHours ==
    /\ employees = {[id |-> 1, employee_id |-> 1, name |-> <<"A", "n", "a">>,
                     phone |-> <<"5", "5">>, hourly_rate |-> 1550],
                    [id |-> 2, employee_id |-> 2, name |-> <<"B", "o">>,
                     phone |-> <<"0", "7">>, hourly_rate |-> 900]}
    /\ time_logs = {[id |-> 1, employee_id |-> 1, clock_in |-> 0,
                     clock_out |-> NULL, hours_worked |-> NULL]}
    /\ emp_seq = 2
    /\ log_seq = 1
    /\ clock \in ElapsedInputs
    /\ req = [s \in Slots |-> Idle]

NextHours ==
    \E s \in Slots :
        \/ ClockStep(s, EmployeeIdInputs, ClockActionInputs)
        \/ ResetStep(s, EmployeeIdInputs)
        \/ Redirect(s)

SpecHours == InitHours /\ [][NextHours]_vars

(***************************************************************************)
(* SpecForms: one worker serving every handler with every form, from an    *)
(* empty database.                                                         *)
(***************************************************************************)
NextForms ==
    \/ StoreStep("r1", RowIdInputs, EmployeeForms)
    \/ ClockStep("r1", EmployeeIdInputs, ClockActionInputs)
    \/ ResetStep("r1", EmployeeIdInputs)
    \/ Redirect("r1")

SpecForms == Init /\ [][NextForms]_vars

(***************************************************************************)
(* SpecValidate: validate_employee applied to arguments drawn from the     *)
(* sets below.                                                             *)
(***************************************************************************)
MaxRateLen == 5

RECURSIVE StringsUpTo(_, _)
StringsUpTo(n, alphabet) ==
    IF n = 0 THEN {<<>>}
    ELSE LET shorter == StringsUpTo(n - 1, alphabet)
         IN  shorter \cup {Append(t, c) : t \in shorter, c \in alphabet}

ValidateIdInputs ==
    {<<>>, <<"1">>, <<"1", "2">>, <<"U+0663">>, <<"x">>, <<"1", " ">>}

ValidateNameInputs ==
    {<<>>, <<"A", "n", "a">>, <<"A", " ", "b">>, <<"B", "0">>, <<" ">>}

ValidatePhoneInputs == {<<>>, <<"0", "7">>, <<"U+0663">>, <<"0", "-">>}

ValidateRateInputs ==
    StringsUpTo(MaxRateLen, {"1", ".", "-"})
        \cup {<<"n", "a", "n">>, <<"i", "n", "f">>, <<"-", "i", "n", "f">>,
               <<"a", "b", "c">>}

InitValidate ==
    /\ employees = {}
    /\ time_logs = {}
    /\ emp_seq = 0
    /\ log_seq = 0
    /\ clock = 0
    /\ \E employee_id \in ValidateIdInputs, name \in ValidateNameInputs,
          phone \in ValidatePhoneInputs, hourly_rate \in ValidateRateInputs :
          req = [s \in Slots |->
                    IF s = "r1"
                    THEN [Idle EXCEPT !.pc = "validate",
                                      !.employee_id = employee_id,
                                      !.name = name, !.phone = phone,
                                      !.hourly_rate = hourly_rate]
                    ELSE Idle]

NextValidate == \E s \in Slots : Validate(s)

SpecValidate == InitValidate /\ [][NextValidate]_vars

(***************************************************************************)
(* SpecList: worker r2 serves listings while worker r1 serves well-formed  *)
(* clock, reset, delete and update requests, from the database of          *)
(* SpecHours.                                                              *)
(***************************************************************************)
NextList ==
    \/ ClockStep("r1", EmployeeIds, ClockActions)
    \/ ResetStep("r1", EmployeeIds)
    \/ \E id \in RowIds : DeleteFetch("r1", id)
    \/ DeleteLogs("r1")
    \/ DeleteEmployee("r1")
    \/ \E id \in RowIds, form \in ValidForms : UpdateCheck("r1", id, form)
    \/ UpdateExecute("r1")
    \/ ListFetch("r2")
    \/ ListTotal("r2")
    \/ \E s \in Slots : Redirect(s)

SpecList == InitHours /\ [][NextList]_vars

(***************************************************************************)
(* Vocabulary of the properties.                                           *)
(***************************************************************************)
Holds(emps, employee_id) == \E e \in emps : e.employee_id = employee_id

EntriesOf(logs, employee_id) == {l \in logs : l.employee_id = employee_id}

OpenEntriesOf(logs, employee_id) ==
    {l \in logs : l.employee_id = employee_id /\ l.clock_out = NULL}

\* slot s finishes its request in this step with the one message m
Reports(s, m, category) ==
    /\ req'[s].pc = "done"
    /\ req'[s].flash = <<m>>
    /\ req'[s].category = category

StoreUnchanged == employees' = employees /\ time_logs' = time_logs

(***************************************************************************)
(* C1: in every reachable state each employee has at most one open         *)
(* attendance entry (an entry whose clock_out is NULL).                    *)
(***************************************************************************)
C1_AtMostOneOpenEntry ==
    \A e \in employees :
        Cardinality(OpenEntriesOf(time_logs, e.employee_id)) <= 1

(***************************************************************************)
(* C2: under every interleaving of create and update requests no two       *)
(* employee rows hold the same employee_id, and a write that would make a  *)
(* second row with an identifier changes nothing and is reported as a      *)
(* duplicate-identifier failure.                                           *)
(***************************************************************************)
C2_UniqueEmployeeId ==
    /\ [](\A e1, e2 \in employees :
            e1.id # e2.id => e1.employee_id # e2.employee_id)
    /\ [][\A s \in Slots :
            LET id == req[s].employee_id_int
                insertDup == /\ req[s].pc = "add_execute"
                             /\ req'[s].pc # "add_execute"
                             /\ Holds(employees, id)
                updateDup == /\ req[s].pc = "update_execute"
                             /\ req'[s].pc # "update_execute"
                             /\ \E e \in employees :
                                   e.id = int(req[s].emp_row_id)
                             /\ \E e \in employees :
                                   /\ e.id # int(req[s].emp_row_id)
                                   /\ e.employee_id = id
            IN  insertDup \/ updateDup =>
                   /\ employees' = employees
                   /\ req'[s].pc = "done"
                   /\ req'[s].category = "danger"
                   /\ \E m \in DuplicateIdentifier : req'[s].flash = <<m>>
         ]_vars

\* a write lost the race: it was rejected by the constraint on an
\* identifier that the pre-check had found free
C2_Witness ==
    /\ time_logs = {}
    /\ log_seq = 0
    /\ \E s \in Slots :
          /\ req[s].pc = "done"
          /\ req[s].flash = <<MsgMustBeUnique>>

(***************************************************************************)
(* C3: a create whose employee_id already exists fails with a              *)
(* duplicate-identifier message and leaves the store unchanged: one row    *)
(* with that identifier remains, with the fields it had.                   *)
(***************************************************************************)
C3_CreateExistingRejected ==
    [][\A s \in Slots :
         /\ (req[s].pc = "idle" /\ req'[s].pc # "idle")
            => \A form \in ValidForms :
                  (/\ Holds(employees, employee_id_int[form])
                   /\ AddCheck(s, form))
                  => /\ Reports(s, MsgAlreadyExists, "danger")
                  /\ StoreUnchanged
                  /\ Cardinality({e \in employees' :
                        e.employee_id = employee_id_int[form]}) = 1
         /\ (/\ req[s].pc = "add_execute"
             /\ req'[s].pc # "add_execute"
             /\ Holds(employees, req[s].employee_id_int))
            => /\ Reports(s, MsgMustBeUnique, "danger")
               /\ StoreUnchanged
               /\ Cardinality({e \in employees' :
                     e.employee_id = req[s].employee_id_int}) = 1
      ]_vars

\* a second create of identifier 1, with other fields, was refused and the
\* row of the first create is the only one
C3_Witness ==
    /\ \E s \in Slots :
          /\ req[s].pc = "done"
          /\ req[s].flash = <<MsgAlreadyExists>>
    /\ emp_seq = 1
    /\ employees = {[id |-> 1, employee_id |-> 1, name |-> <<"A", "n", "a">>,
                     phone |-> <<"5", "5">>, hourly_rate |-> 1550]}

(***************************************************************************)
(* C4: every attendance entry references the employee_id of an existing    *)
(* employee row, and when a delete completes neither the row nor any entry *)
(* with the identifier of the removed row is left.                         *)
(***************************************************************************)
C4_EntriesReferenceEmployees ==
    /\ [](\A l \in time_logs : \E e \in employees :
             e.employee_id = l.employee_id)
    /\ [][\A s \in Slots :
            (req[s].pc = "delete_employee" /\ req'[s].pc # "delete_employee")
            => /\ \A e \in employees' : e.id # int(req[s].emp_row_id)
               /\ \A e \in employees :
                     e.id = int(req[s].emp_row_id)
                     => \A l \in time_logs' : l.employee_id # e.employee_id
         ]_vars

\* the only employee there ever was had entries, and a delete completed
C4_Witness ==
    /\ emp_seq = 1
    /\ log_seq > 0
    /\ employees = {}
    /\ time_logs = {}
    /\ \E s \in Slots : req[s].pc = "done" /\ req[s].flash = <<MsgDeleted>>

(***************************************************************************)
(* C5: a clock_out of an existing employee that has no open entry fails    *)
(* with the no-open-entry message and changes no row.                      *)
(***************************************************************************)
C5_ClockOutWithoutOpenEntry ==
    [][\A s \in Slots :
         (/\ req[s].pc = "clock_out_fetch"
          /\ req'[s].pc # "clock_out_fetch"
          /\ Holds(employees, req[s].employee_id_int)
          /\ OpenEntriesOf(time_logs, req[s].employee_id_int) = {})
         => /\ Reports(s, MsgNoClockIn, "danger")
            /\ StoreUnchanged
      ]_vars

\* refused although the employee has an entry, a closed one
C5_Witness ==
    \E s \in Slots :
        /\ req[s].pc = "done"
        /\ req[s].flash = <<MsgNoClockIn>>
        /\ \E e \in employees :
              /\ EntriesOf(time_logs, e.employee_id) # {}
              /\ OpenEntriesOf(time_logs, e.employee_id) = {}

(***************************************************************************)
(* C6: a clock_in or clock_out for an employee_id that no employee row     *)
(* holds fails with the employee-not-found message and inserts or changes  *)
(* no entry, also when the row goes away between the existence check and   *)
(* the write.                                                              *)
(***************************************************************************)
C6_ClockUnknownEmployee ==
    [][\A s \in Slots :
         (/\ req[s].pc \in {"clock_exists", "clock_in", "clock_out_fetch",
                            "clock_out_execute"}
          /\ req'[s].pc # req[s].pc
          /\ ~Holds(employees, req[s].employee_id_int))
         => /\ Reports(s, MsgNotFound, "danger")
            /\ time_logs' = time_logs
      ]_vars

(***************************************************************************)
(* C7: for an employee with no open entry a clock_in adds exactly one      *)
(* entry, open, and the clock_out that follows it with no other request on *)
(* the employee in between closes that entry with hours_worked equal to    *)
(* (clock_out - clock_in) seconds / 3600 rounded to 2 places, adds no      *)
(* entry and leaves the employee without an open entry.                    *)
(***************************************************************************)
Distance(a, b) == IF a >= b THEN a - b ELSE b - a

\* h hundredths of an hour is a nearest hundredth to `seconds`
NearestHundredth(h, seconds) == 2 * Distance(36 * h, seconds) <= 36

C7_ClockInThenClockOut ==
    [][\A s \in Slots :
         LET E == req[s].employee_id_int
         IN  /\ (/\ req[s].pc = "clock_in"
                 /\ req'[s].pc # "clock_in"
                 /\ Holds(employees, E)
                 /\ OpenEntriesOf(time_logs, E) = {})
                => \E n \in time_logs' :
                      /\ \A l \in time_logs : l.id # n.id
                      /\ time_logs' = time_logs \cup {n}
                      /\ n.employee_id = E
                      /\ n.clock_in = req[s].now
                      /\ n.clock_out = NULL
                      /\ n.hours_worked = NULL
             /\ (/\ req[s].pc = "clock_out_execute"
                 /\ req'[s].pc # "clock_out_execute"
                 /\ OpenEntriesOf(time_logs, E) # {}
                 /\ \A l \in OpenEntriesOf(time_logs, E) :
                       l.id = req[s].log_id)
                => \E l \in time_logs, c \in time_logs' :
                      /\ l.id = req[s].log_id
                      /\ c.id = l.id
                      /\ time_logs' = (time_logs \ {l}) \cup {c}
                      /\ c.employee_id = E
                      /\ c.clock_in = l.clock_in
                      /\ c.clock_out = <<req[s].now>>
                      /\ c.hours_worked # NULL
                      /\ NearestHundredth(c.hours_worked[1],
                                          c.clock_out[1] - c.clock_in)
                      /\ OpenEntriesOf(time_logs', E) = {}
      ]_vars

\* 70 seconds after the clock_in the entry was closed with 0.02 hours
C7_Witness ==
    \E l \in time_logs :
        /\ l.clock_in = 0
        /\ l.clock_out = <<70>>
        /\ l.hours_worked = <<2>>
        /\ OpenEntriesOf(time_logs, l.employee_id) = {}

(***************************************************************************)
(* C8: with a wall clock that never goes backwards and clock requests of   *)
(* one employee interleaved, every hours_worked is NULL or non-negative    *)
(* and the clock_out of a closed entry is not earlier than its clock_in.   *)
(***************************************************************************)
C8_NonNegativeHours ==
    \A l \in time_logs :
        /\ l.hours_worked = NULL \/ l.hours_worked[1] >= 0
        /\ l.clock_out = NULL \/ l.clock_out[1] >= l.clock_in

(***************************************************************************)
(* C9: an entry's hours_worked is NULL exactly while the entry is open.    *)
(* As amended: a closed entry's hours_worked is never NULL, and an open    *)
(* entry's hours_worked is NULL or, once reset_hours has run on its        *)
(* employee, 0.                                                            *)
(***************************************************************************)
C9_NullExactlyWhileOpen ==
    \A l \in time_logs : l.hours_worked = NULL <=> l.clock_out = NULL

C9_ClosedHasHours ==
    \A l \in time_logs :
        /\ l.clock_out # NULL => l.hours_worked # NULL
        /\ l.clock_out = NULL => l.hours_worked \in {NULL, <<0>>}

\* an open entry that was reset next to a closed entry with its hours
C9_Witness ==
    \E l, m \in time_logs :
        /\ l.clock_out = NULL
        /\ l.hours_worked = <<0>>
        /\ m.clock_out # NULL
        /\ m.hours_worked # NULL
        /\ m.hours_worked # <<0>>

HoursOfRow(i, employee_id) ==
    LET ls == {l \in time_logs : /\ l.id = i
                                  /\ l.employee_id = employee_id
                                  /\ l.hours_worked # NULL}
    IN  IF ls = {} THEN 0 ELSE (CHOOSE l \in ls : TRUE).hours_worked[1]

RECURSIVE SumUpTo(_, _)
SumUpTo(n, employee_id) ==
    IF n = 0 THEN 0
    ELSE HoursOfRow(n, employee_id) + SumUpTo(n - 1, employee_id)

C11_TotalHoursIsSum ==
    [][\A s \in Slots :
          (req[s].pc = "list_totals" /\ req'[s] # req[s]) =>
             LET shown == req'[s].employees_with_hours
                 e == shown[Len(shown)]
             IN  /\ Len(shown) = Len(req[s].employees_with_hours) + 1
                 /\ e.employee_id = Head(req[s].employees).employee_id
                 /\ e.total_hours = SumUpTo(log_seq, e.employee_id)
                 /\ (EntriesOf(time_logs, e.employee_id) = {}
                       => e.total_hours = 0)
                 /\ StoreUnchanged]_vars

\* a listing that shows 0.02 hours for employee 1, who has one closed
\* entry of 0.02 hours and one open entry, and 0 for employee 2
C11_Witness ==
    \E s \in Slots :
        /\ req[s].pc = "done"
        /\ Len(req[s].employees_with_hours) = 2
        /\ req[s].employees_with_hours[1].employee_id = 2
        /\ req[s].employees_with_hours[1].total_hours = 0
        /\ req[s].employees_with_hours[2].employee_id = 1
        /\ req[s].employees_with_hours[2].total_hours = 2
        /\ \E l \in OpenEntriesOf(time_logs, 1) : l.hours_worked = NULL
        /\ \E l \in EntriesOf(time_logs, 1) : l.hours_worked = <<2>>

(***************************************************************************)
(* C12: an update with a valid record is refused as a duplicate identifier *)
(* exactly when a different row holds the new employee_id: with its own    *)
(* identifier, or with one no other row holds (entries or not), it         *)
(* succeeds, and no other failure is reported as a duplicate.  Stated for  *)
(* the row handles that name a row (C13 is about the others).              *)
(***************************************************************************)
\* a row other than id holds employee_id
HeldByOther(id, employee_id) ==
    \E e \in employees : e.employee_id = employee_id /\ e.id # id

C12_UpdateDuplicateIff ==
    [][\A s \in Slots :
          /\ \A id \in RowIds, form \in ValidForms :
                (/\ UpdateCheck(s, id, form)
                 /\ req'[s].pc = "done"
                 /\ RowsById(int(id)) # {}) =>
                   /\ req'[s].flash[1] \in DuplicateIdentifier
                   /\ HeldByOther(int(id), employee_id_int[form])
          /\ (/\ req[s].pc = "update_execute"
              /\ req'[s].pc = "done"
              /\ RowsById(int(req[s].emp_row_id)) # {}) =>
                IF HeldByOther(int(req[s].emp_row_id), req[s].employee_id_int)
                THEN /\ req'[s].flash[1] \in DuplicateIdentifier
                     /\ StoreUnchanged
                ELSE Reports(s, MsgUpdated, "success")]_vars

(***************************************************************************)
(* C13: an update whose row handle names no row fails with NotFound (it    *)
(* does not report success) and changes no employee row and no entry.      *)
(***************************************************************************)
C13_UpdateMissingRow ==
    [][\A s \in Slots :
          (/\ req[s].pc = "update_execute"
           /\ req'[s].pc = "done"
           /\ RowsById(int(req[s].emp_row_id)) = {}) =>
             /\ Reports(s, MsgNotFound, "danger")
             /\ StoreUnchanged]_vars

(***************************************************************************)
(* C14: a delete that removes no employee row, the row being absent when   *)
(* the deletion is performed, reports NotFound and never success, also     *)
(* when two deletes of one row handle interleave.                          *)
(***************************************************************************)
C14_DeleteAbsentRow ==
    [][\A s \in Slots :
          (/\ req[s].pc = "delete_employee"
           /\ req'[s].pc = "done"
           /\ employees' = employees) =>
             Reports(s, MsgNotFound, "danger")]_vars

(***************************************************************************)
(* C15: validate returns, in the order employeeId, name, phone,            *)
(* hourlyRate, one violation for each rule that fails and none for a rule  *)
(* that holds: employeeId and phone match ^[0-9]+$, name matches           *)
(* ^[A-Za-z ]+$, hourlyRate is a non-negative decimal with at most 2       *)
(* fractional digits (not a number: only that violation; more than 2       *)
(* fractional digits: the precision violation); the result is empty        *)
(* exactly when the four rules hold.                                       *)
(***************************************************************************)
ZeroToNine == {"0", "1", "2", "3", "4", "5", "6", "7", "8", "9"}

\* ^[0-9]+$
RuleDigits(t) == Len(t) >= 1 /\ \A i \in 1..Len(t) : t[i] \in ZeroToNine

\* ^[A-Za-z ]+$
RuleName(t) ==
    Len(t) >= 1 /\ \A i \in 1..Len(t) : t[i] \in Letters \cup {" "}

\* t without a leading sign
Unsigned(t) ==
    IF Len(t) >= 1 /\ t[1] \in {"-", "+"} THEN SubSeq(t, 2, Len(t)) ELSE t

\* a decimal number: an optional sign, digits and at most one point
IsDecimal(t) ==
    LET u == Unsigned(t)
    IN  /\ \A i \in 1..Len(u) : u[i] \in ZeroToNine \cup {"."}
        /\ Cardinality({i \in 1..Len(u) : u[i] = "."}) <= 1
        /\ \E i \in 1..Len(u) : u[i] \in ZeroToNine

IsNegative(t) ==
    /\ Len(t) >= 1 /\ t[1] = "-"
    /\ \E i \in 1..Len(t) : t[i] \in ZeroToNine \ {"0"}

FractionDigits(t) ==
    LET dots == {i \in 1..Len(t) : t[i] = "."}
    IN  IF dots = {} THEN 0 ELSE Len(t) - (CHOOSE i \in dots : TRUE)

\* the results the hourlyRate rule allows: none when it holds, else one
\* violation of the kind that applies (either kind for a negative value
\* with more than 2 fractional digits)
RateViolations(t) ==
    IF ~IsDecimal(t) THEN {<<ErrRateNumber>>}
    ELSE (IF IsNegative(t) THEN {<<ErrRateNegative>>} ELSE {})
         \cup (IF FractionDigits(t) > 2 THEN {<<ErrRatePrecision>>} ELSE {})
         \cup (IF ~IsNegative(t) /\ FractionDigits(t) <= 2
               THEN {<<>>} ELSE {})

C15_Validate ==
    \A s \in Slots :
        req[s].pc = "validated" =>
           \E rate \in RateViolations(req[s].hourly_rate) :
              req[s].flash =
                 (IF RuleDigits(req[s].employee_id) THEN <<>>
                  ELSE <<ErrEmployeeId>>)
                 \o (IF RuleName(req[s].name) THEN <<>> ELSE <<ErrName>>)
                 \o (IF RuleDigits(req[s].phone) THEN <<>>
                     ELSE <<ErrPhone>>)
                 \o rate

(***************************************************************************)
(* C16: every successful clockIn and every successful clockOut emits one   *)
(* notification to the notifier gateway.                                   *)
(***************************************************************************)
C16_TransitionsNotify ==
    \A s \in Slots :
        (/\ req[s].pc = "done"
         /\ req[s].category = "success"
         /\ req[s].flash \in {<<MsgClockedIn>>, <<MsgClockedOut>>}) =>
           Len(req[s].notifications) = 1

(***************************************************************************)
(* C17: once an entry is closed its clock_in and clock_out never change    *)
(* again, and no clockOut request writes to a closed entry: two            *)
(* interleaved clockOut requests never both close the same entry.          *)
(***************************************************************************)
C17_ClosedEntriesFrozen ==
    [][/\ \A l \in time_logs, m \in time_logs' :
             (l.clock_out # NULL /\ m.id = l.id) =>
                m.clock_in = l.clock_in /\ m.clock_out = l.clock_out
       /\ \A s \in Slots :
             (req[s].pc = "clock_out_execute" /\ req'[s].pc = "done") =>
                \A l \in time_logs :
                   l.id = req[s].log_id => l.clock_out = NULL]_vars

(***************************************************************************)
(* C18: a successful clockOut(E) closes exactly one entry, the open entry  *)
(* of E with the greatest row id, and leaves every other entry unchanged:  *)
(* its read selects the open entry of E with the greatest row id, and its  *)
(* write closes that entry, open until then, and changes no other.         *)
(***************************************************************************)
C18_ClosesMostRecentOpen ==
    [][\A s \in Slots :
          /\ (req[s].pc = "clock_out_fetch"
                 /\ req'[s].pc = "clock_out_execute") =>
                \E l \in OpenEntriesOf(time_logs, req[s].employee_id_int) :
                   /\ l.id = req'[s].log_id
                   /\ \A m \in OpenEntriesOf(time_logs,
                                             req[s].employee_id_int) :
                         m.id <= l.id
          /\ (req[s].pc = "clock_out_execute" /\ req'[s].pc = "done") =>
                \E l \in OpenEntriesOf(time_logs, req[s].employee_id_int) :
                   /\ l.id = req[s].log_id
                   /\ time_logs \ time_logs' = {l}
                   /\ \E m \in time_logs' :
                         /\ time_logs' \ time_logs = {m}
                         /\ m.id = l.id
                         /\ m.employee_id = l.employee_id
                         /\ m.clock_in = l.clock_in
                         /\ m.clock_out # NULL]_vars

(***************************************************************************)
(* C19: the statements of a delete remove no employee row other than the   *)
(* row of the handle and no entry of a different employee, whatever        *)
(* update, create and clock-in requests interleave with them.              *)
(***************************************************************************)
C19_DeleteFrame ==
    [][\A s \in Slots :
          (/\ req[s].pc \in {"delete_logs", "delete_employee"}
           /\ req'[s] # req[s]) =>
             LET target == RowsById(int(req[s].emp_row_id))
             IN  /\ (employees \ employees') \subseteq target
                 /\ \A l \in time_logs \ time_logs' :
                       \E e \in target : e.employee_id = l.employee_id]_vars

====
